---- MODULE Spec2Model ----
(***************************************************************************)
(* The structured logging facade of src/src/logger/index.js: Field,        *)
(* Context and Logger, with the Sink (winston's out.log) and the           *)
(* ErrorReporter (Sentry.captureException) as append-only logs of the      *)
(* calls they receive.                                                     *)
(*                                                                         *)
(* Every variable is a function of the processes that run the module.  A   *)
(* specification starts either one process, whose NODE_ENV is any value,   *)
(* or two processes that differ in NODE_ENV only and receive the same      *)
(* calls.                                                                  *)
(***************************************************************************)
EXTENDS Integers, Sequences, FiniteSets, TLC

VARIABLES
    ENVIRONMENT,    \* EnvOptions.ENVIRONMENT of each process
    printSenstive,  \* Logger.printSenstive
    globalFields,   \* Logger.globalFields
    contexts,       \* the Context objects the caller holds, in creation order
    out,            \* the entries passed to Logger.out.log
    captured,       \* the arguments passed to Sentry.captureException
    invoked,        \* the field values called as functions, with their arguments
    last,           \* the call made last: its arguments and how it ended
    ncalls          \* the number of calls made so far

vars == <<ENVIRONMENT, printSenstive, globalFields, contexts, out, captured, invoked, last, ncalls>>

----------------------------------------------------------------------------
(* Bounds of the model *)

\* calls the caller makes on the Logger and its Contexts
MaxCalls == 4

----------------------------------------------------------------------------
(* JavaScript values: t is the result of typeof, v tells values of one     *)
(* type apart.  A thrown exception is the value of type "throw".           *)

Str(s) == [t |-> "string", v |-> s]
Undefined == [t |-> "undefined", v |-> "undefined"]
Null == [t |-> "object", v |-> "null"]
ObjA == [t |-> "object", v |-> "{a:1}"]
Circular == [t |-> "object", v |-> "circular"]
ErrBoom == [t |-> "object", v |-> "new Error(boom)"]
Num42 == [t |-> "number", v |-> "42"]
True == [t |-> "boolean", v |-> "true"]
Lazy == [t |-> "function", v |-> "() => ({a:1})"]
Throw(msg) == [t |-> "throw", v |-> msg]

typeof(value) == value.t
Threw(value) == value.t = "throw"
NoThrow == ""
ThrownBy(value) == IF Threw(value) THEN value.v ELSE NoThrow

\* JSON.stringify on the values of type "object"
JSON_stringify(value) ==
    CASE value = Null -> Str("null")
      [] value = ObjA -> Str("{\"a\":1}")
      [] value = ErrBoom -> Str("{}")
      [] value = Circular -> Throw("TypeError: Converting circular structure to JSON")
      [] OTHER -> Str(value.v)

\* value.toString()
toString(value) ==
    CASE value = Null -> Throw("TypeError: Cannot read properties of null")
      [] value = Undefined -> Throw("TypeError: Cannot read properties of undefined")
      [] value = ErrBoom -> Str("Error: boom")
      [] typeof(value) = "object" -> Str("[object Object]")
      [] OTHER -> Str(value.v)

\* value(): the call of a field value that is a function, with no arguments
CallFn(value) == IF value = Lazy THEN ObjA ELSE Undefined

----------------------------------------------------------------------------
(* Field *)

\* _serialiseValue with null taken for a missing value, like undefined
_serialiseValue_NullAsEmpty(value) ==
    CASE value = Null -> Str("")
      [] typeof(value) = "object" -> JSON_stringify(value)
      [] typeof(value) = "undefined" -> Str("")
      [] OTHER -> value

_serialiseValue(value) ==
    CASE typeof(value) = "object" -> JSON_stringify(value)
      [] typeof(value) = "undefined" -> Str("")
      [] OTHER -> value

\* new Field(name, value, sensitive); a Field whose value is a Throw stands
\* for the constructor throwing it
Field(name, value, sensitive) ==
    [name |-> name, value |-> _serialiseValue(value), sensitive |-> sensitive]

----------------------------------------------------------------------------
(* Context *)

TheLogger == "logger"
NoLogger == "undefined"

\* The constructor without its check of logger
Context_Unchecked(logger) == [t |-> "Context", _logger |-> logger, _fields |-> <<>>]

\* The constructor with this._fields = logger.globalFields, the Logger's own list
Context_SharedFields(logger) ==
    IF logger = NoLogger
    THEN Throw("Error: context expected a logger")
    ELSE [t |-> "Context", _logger |-> logger, _fields |-> globalFields[1]]

\* new Context(logger)
Context(logger) ==
    IF logger = NoLogger
    THEN Throw("Error: context expected a logger")
    ELSE [t |-> "Context", _logger |-> logger, _fields |-> <<>>]

\* Context.withField / Context.withSensitiveField: the Context after the call,
\* or the exception the Field constructor throws
PushField(self, name, value, sensitive) ==
    LET field == Field(name, value, sensitive)
    IN  IF Threw(field.value)
        THEN field.value
        ELSE [self EXCEPT !._fields = Append(@, field)]

Context_withField(self, name, value) == PushField(self, name, value, FALSE)

Context_withSensitiveField(self, name, value) == PushField(self, name, value, TRUE)

\* withError with the field made of err itself, not of err.toString()
Context_withError_Raw(self, err) == Context_withField(self, "error", err)

\* Context.withError: Sentry.captureException(err) comes first, then
\* err.toString() may throw before withField runs
Context_withError(self, err) ==
    LET s == toString(err)
    IN  IF Threw(s) THEN s ELSE Context_withField(self, "error", s)

\* The assignment that keeps the value of a key the entry holds already
SetKey_KeepFirst(entry, name, value) ==
    [k \in DOMAIN entry \cup {name} |-> IF k \in DOMAIN entry THEN entry[k] ELSE value]

\* entry[name] = value, for a name that is an ordinary property key (the
\* names of the model are; the key __proto__ is not)
SetKey(entry, name, value) ==
    [k \in DOMAIN entry \cup {name} |-> IF k = name THEN value ELSE entry[k]]

\* The resolution that never replaces the value of a sensitive field
Resolve_NoRedaction(field, printSensitive) ==
    IF typeof(field.value) = "function" THEN CallFn(field.value) ELSE field.value

\* The value _print resolves for one field
Resolve(field, printSensitive) ==
    LET value == IF typeof(field.value) = "function" THEN CallFn(field.value) ELSE field.value
    IN  IF field.sensitive /\ ~printSensitive THEN Str("") ELSE value

\* The loop that starts at the second field
RECURSIVE ForEachField_From(_, _, _)
ForEachField_From(fields, entry, printSensitive) ==
    IF fields = <<>>
    THEN entry
    ELSE ForEachField_From(Tail(fields),
                           [k \in DOMAIN entry \cup {Head(fields).name} |->
                               IF k = Head(fields).name
                               THEN (IF Head(fields).sensitive /\ ~printSensitive
                                     THEN Str("")
                                     ELSE IF typeof(Head(fields).value) = "function"
                                          THEN CallFn(Head(fields).value)
                                          ELSE Head(fields).value)
                               ELSE entry[k]],
                           printSensitive)

ForEachField_SkipFirst(fields, entry, printSensitive) ==
    IF fields = <<>> THEN entry ELSE ForEachField_From(Tail(fields), entry, printSensitive)

\* fields.forEach(...) of _print, on the entry built so far
RECURSIVE ForEachField(_, _, _)
ForEachField(fields, entry, printSensitive) ==
    IF fields = <<>>
    THEN entry
    ELSE ForEachField(Tail(fields),
                      SetKey(entry, Head(fields).name, Resolve(Head(fields), printSensitive)),
                      printSensitive)

\* The loop that does not call the value of a sensitive field
RECURSIVE FieldCalls_SkipSensitive(_, _)
FieldCalls_SkipSensitive(fields, delivered) ==
    IF fields = <<>>
    THEN <<>>
    ELSE (IF typeof(Head(fields).value) = "function" /\ ~Head(fields).sensitive
          THEN <<[fn |-> Head(fields).value, args |-> <<>>, delivered |-> delivered]>>
          ELSE <<>>) \o FieldCalls_SkipSensitive(Tail(fields), delivered)

\* The function calls fields.forEach(...) makes, in order, each with its
\* arguments and the number of entries the Sink has received when it is made
RECURSIVE FieldCalls(_, _)
FieldCalls(fields, delivered) ==
    IF fields = <<>>
    THEN <<>>
    ELSE (IF typeof(Head(fields).value) = "function"
          THEN <<[fn |-> Head(fields).value, args |-> <<>>, delivered |-> delivered]>>
          ELSE <<>>) \o FieldCalls(Tail(fields), delivered)

\* The list without the global fields
PrintFields_OwnOnly(globals, self) == self._fields

\* The list _print iterates
PrintFields(globals, self) == globals \o self._fields

\* The entry Context._print passes to this._logger.out.log
_print(globals, printSensitive, self, level, message) ==
    ForEachField(PrintFields(globals, self),
                 [level |-> Str(level), message |-> message],
                 printSensitive)

----------------------------------------------------------------------------------------------------------------------------------------------
(* The processes and the calls they receive *)

procs == DOMAIN ENVIRONMENT

\* NODE_ENV; "undefined" stands for the variable not being set
Envs == {"development", "production", "undefined"}
Names == {"a", "level", "message"}
AllValues == {Undefined, Null, ObjA, Circular, Num42, Str("s"), Str(""), True, Lazy}
\* The (name, value) pairs the caller attaches
FieldArgs == {<<"a", Lazy>>, <<"a", ObjA>>, <<"level", Undefined>>, <<"message", Num42>>,
              <<"a", Circular>>}
\* The (name, value) pairs the caller hands to the methods of the Logger
LoggerArgs == {<<"a", Lazy>>, <<"message", Num42>>, <<"a", Circular>>}
Errs == {ErrBoom, Null}
Messages == {Str("hello")}
Loggers == {TheLogger, NoLogger}

CanCall == ncalls < MaxCalls
Held(c) == \A p \in procs : c \in 1..Len(contexts[p])

\* The record of a call: the method, the Context it is called on (0: the
\* Logger), its arguments (name, or the level of an emission; value, or the
\* err, the message or the logger argument), the objects it constructs, the Context it returns
\* (0: none is kept) and the exception it throws
Call(op, self, name, value, created, ret, thrown) ==
    [op |-> op, self |-> self, name |-> name, value |-> value,
     created |-> created, ret |-> ret, thrown |-> thrown]

NoCall == Call("none", 0, "", Undefined, <<>>, 0, NoThrow)

----------------------------------------------------------------------------
(* Logger.constructor, lines 25-36 *)

\* The flag set wherever the environment is not production
PrintSenstive_NotProduction(environment) == environment # "production"

\* this.printSenstive = EnvOptions.ENVIRONMENT === "development"
PrintSenstive(environment) == environment = "development"

LoggerInit(E) ==
    /\ ENVIRONMENT \in E
    /\ printSenstive = [p \in DOMAIN ENVIRONMENT |-> PrintSenstive(ENVIRONMENT[p])]
    /\ globalFields = [p \in DOMAIN ENVIRONMENT |-> <<>>]
    /\ contexts = [p \in DOMAIN ENVIRONMENT |-> <<>>]
    /\ out = [p \in DOMAIN ENVIRONMENT |-> <<>>]
    /\ captured = [p \in DOMAIN ENVIRONMENT |-> <<>>]
    /\ invoked = [p \in DOMAIN ENVIRONMENT |-> <<>>]
    /\ last = [p \in DOMAIN ENVIRONMENT |-> NoCall]
    /\ ncalls = 0

\* One process, any NODE_ENV
Init == LoggerInit([{1} -> Envs])

\* Two processes that differ in NODE_ENV only: 1 runs in development, 2 does not
InitPair == LoggerInit({E \in [{1, 2} -> Envs] : E[1] = "development" /\ E[2] # "development"})

----------------------------------------------------------------------------
(* Logger *)

SetGlobalField(name, value) ==
    /\ CanCall
    /\ ncalls' = ncalls + 1
    /\ LET field == Field(name, value, FALSE)
       IN  /\ globalFields' = [p \in procs |->
                  IF Threw(field.value) THEN globalFields[p]
                  ELSE Append(globalFields[p], field)]
           /\ last' = [p \in procs |->
                  Call("Logger.setGlobalField", 0, name, value, <<>>, 0, ThrownBy(field.value))]
    /\ UNCHANGED <<ENVIRONMENT, printSenstive, contexts, out, captured, invoked>>

\* The Context a Logger method returns is kept by the caller
Keep(op, name, value, ctx0, ctx) ==
    /\ contexts' = [p \in procs |-> IF Threw(ctx) THEN contexts[p] ELSE Append(contexts[p], ctx)]
    /\ last' = [p \in procs |->
           Call(op, 0, name, value, <<ctx0>>,
                IF Threw(ctx) THEN 0 ELSE Len(contexts[p]) + 1, ThrownBy(ctx))]

LoggerWithField(name, value) ==
    /\ CanCall
    /\ ncalls' = ncalls + 1
    /\ LET ctx0 == Context(TheLogger)
       IN  Keep("Logger.withField", name, value, ctx0, Context_withField(ctx0, name, value))
    /\ UNCHANGED <<ENVIRONMENT, printSenstive, globalFields, out, captured, invoked>>

LoggerWithSensitiveField(name, value) ==
    /\ CanCall
    /\ ncalls' = ncalls + 1
    /\ LET ctx0 == Context(TheLogger)
       IN  Keep("Logger.withSensitiveField", name, value, ctx0,
                Context_withSensitiveField(ctx0, name, value))
    /\ UNCHANGED <<ENVIRONMENT, printSenstive, globalFields, out, captured, invoked>>

LoggerWithError(err) ==
    /\ CanCall
    /\ ncalls' = ncalls + 1
    /\ LET ctx0 == Context(TheLogger)
       IN  Keep("Logger.withError", "", err, ctx0, Context_withError(ctx0, err))
    /\ captured' = [p \in procs |-> Append(captured[p], err)]
    /\ UNCHANGED <<ENVIRONMENT, printSenstive, globalFields, out, invoked>>

\* Logger.error / info / debug: new Context(this).<level>(message)
LoggerPrint(level, message) ==
    /\ CanCall
    /\ ncalls' = ncalls + 1
    /\ LET ctx0 == Context(TheLogger)
       IN  /\ out' = [p \in procs |->
                  Append(out[p], _print(globalFields[p], printSenstive[p], ctx0, level, message))]
           /\ invoked' = [p \in procs |->
                  invoked[p] \o FieldCalls(PrintFields(globalFields[p], ctx0), Len(out[p]))]
           /\ last' = [p \in procs |->
                  Call("Logger." \o level, 0, level, message, <<ctx0>>, 0, NoThrow)]
    /\ UNCHANGED <<ENVIRONMENT, printSenstive, globalFields, contexts, captured>>

LoggerError(message) == LoggerPrint("error", message)

LoggerInfo(message) == LoggerPrint("info", message)

LoggerDebug(message) == LoggerPrint("debug", message)

----------------------------------------------------------------------------
(* Field *)

\* new Field(name, value, sensitive), by a caller that reaches the class; the
\* Field is handed back and nothing else changes
NewField(name, value, sensitive) ==
    /\ CanCall
    /\ ncalls' = ncalls + 1
    /\ LET field == Field(name, value, sensitive)
       IN  last' = [p \in procs |->
               Call(IF sensitive THEN "new Field(sensitive)" ELSE "new Field", 0, name, value,
                    IF Threw(field.value) THEN <<>> ELSE <<field>>, 0, ThrownBy(field.value))]
    /\ UNCHANGED <<ENVIRONMENT, printSenstive, globalFields, contexts, out, captured, invoked>>

----------------------------------------------------------------------------
(* Context *)

\* new Context(logger), by a caller that reaches the class
NewContext(logger) ==
    /\ CanCall
    /\ ncalls' = ncalls + 1
    /\ LET ctx == Context(logger)
       IN  /\ contexts' = [p \in procs |->
                  IF Threw(ctx) THEN contexts[p] ELSE Append(contexts[p], ctx)]
           /\ last' = [p \in procs |->
                  Call("new Context", 0, "", Str(logger),
                       IF Threw(ctx) THEN <<>> ELSE <<ctx>>,
                       IF Threw(ctx) THEN 0 ELSE Len(contexts[p]) + 1, ThrownBy(ctx))]
    /\ UNCHANGED <<ENVIRONMENT, printSenstive, globalFields, out, captured, invoked>>

\* A method of the held Context c that returns this
Mutate(c, op, name, value, ctx) ==
    /\ contexts' = [p \in procs |->
           IF Threw(ctx[p]) THEN contexts[p] ELSE [contexts[p] EXCEPT ![c] = ctx[p]]]
    /\ last' = [p \in procs |->
           Call(op, c, name, value, <<>>, IF Threw(ctx[p]) THEN 0 ELSE c, ThrownBy(ctx[p]))]

ContextWithField(c, name, value) ==
    /\ Held(c) /\ CanCall
    /\ ncalls' = ncalls + 1
    /\ Mutate(c, "Context.withField", name, value,
              [p \in procs |-> Context_withField(contexts[p][c], name, value)])
    /\ UNCHANGED <<ENVIRONMENT, printSenstive, globalFields, out, captured, invoked>>

ContextWithSensitiveField(c, name, value) ==
    /\ Held(c) /\ CanCall
    /\ ncalls' = ncalls + 1
    /\ Mutate(c, "Context.withSensitiveField", name, value,
              [p \in procs |-> Context_withSensitiveField(contexts[p][c], name, value)])
    /\ UNCHANGED <<ENVIRONMENT, printSenstive, globalFields, out, captured, invoked>>

ContextWithError(c, err) ==
    /\ Held(c) /\ CanCall
    /\ ncalls' = ncalls + 1
    /\ Mutate(c, "Context.withError", "", err,
              [p \in procs |-> Context_withError(contexts[p][c], err)])
    /\ captured' = [p \in procs |-> Append(captured[p], err)]
    /\ UNCHANGED <<ENVIRONMENT, printSenstive, globalFields, out, invoked>>

\* Context.error / info / debug: this._print(level, message)
ContextPrint(c, level, message) ==
    /\ Held(c) /\ CanCall
    /\ ncalls' = ncalls + 1
    /\ out' = [p \in procs |->
           Append(out[p], _print(globalFields[p], printSenstive[p], contexts[p][c], level, message))]
    /\ invoked' = [p \in procs |->
           invoked[p] \o FieldCalls(PrintFields(globalFields[p], contexts[p][c]), Len(out[p]))]
    /\ last' = [p \in procs |-> Call("Context." \o level, c, level, message, <<>>, 0, NoThrow)]
    /\ UNCHANGED <<ENVIRONMENT, printSenstive, globalFields, contexts, captured>>

ContextError(c, message) == ContextPrint(c, "error", message)

ContextInfo(c, message) == ContextPrint(c, "info", message)

ContextDebug(c, message) == ContextPrint(c, "debug", message)

----------------------------------------------------------------------------
(* Specifications *)

\* The calls on Contexts, with setGlobalField
Next ==
    \/ \E a \in FieldArgs : SetGlobalField(a[1], a[2])
    \/ \E logger \in Loggers : NewContext(logger)
    \/ \E c \in 1..MaxCalls, a \in FieldArgs : ContextWithField(c, a[1], a[2])
    \/ \E c \in 1..MaxCalls, a \in FieldArgs : ContextWithSensitiveField(c, a[1], a[2])
    \/ \E c \in 1..MaxCalls, err \in Errs : ContextWithError(c, err)
    \/ \E c \in 1..MaxCalls, message \in Messages : ContextError(c, message)
    \/ \E c \in 1..MaxCalls, message \in Messages : ContextInfo(c, message)
    \/ \E c \in 1..MaxCalls, message \in Messages : ContextDebug(c, message)

\* The calls on the Logger, with the emissions of the Contexts it returns
NextLogger ==
    \/ \E a \in LoggerArgs : SetGlobalField(a[1], a[2])
    \/ \E a \in LoggerArgs : LoggerWithField(a[1], a[2])
    \/ \E a \in LoggerArgs : LoggerWithSensitiveField(a[1], a[2])
    \/ \E err \in Errs : LoggerWithError(err)
    \/ \E message \in Messages : LoggerError(message)
    \/ \E message \in Messages : LoggerInfo(message)
    \/ \E message \in Messages : LoggerDebug(message)
    \/ \E c \in 1..MaxCalls, err \in Errs : ContextWithError(c, err)
    \/ \E c \in 1..MaxCalls, message \in Messages : ContextInfo(c, message)

\* The Field constructor on every kind of value
NextField ==
    \E name \in Names, value \in AllValues, sensitive \in BOOLEAN : NewField(name, value, sensitive)

Spec == Init /\ [][Next]_vars

SpecField == Init /\ [][NextField]_vars

SpecLogger == Init /\ [][NextLogger]_vars

SpecPair == InitPair /\ [][Next]_vars

----------------------------------------------------------------------------
(* What the claims speak of.  In an action formula the unprimed variables    *)
(* are the state before the call and last' is the call the step makes.       *)

ContextEmitOps == {"Context.error", "Context.info", "Context.debug"}
LoggerEmitOps == {"Logger.error", "Logger.info", "Logger.debug"}
EmitOps == ContextEmitOps \cup LoggerEmitOps
LoggerContextOps == {"Logger.withField", "Logger.withSensitiveField", "Logger.withError"}
WithErrorOps == {"Context.withError", "Logger.withError"}

\* The step is a call of one of the methods ops
Called(p, ops) == ncalls' = ncalls + 1 /\ last'[p].op \in ops

\* The level an emitting method stands for
LevelOf(op) ==
    CASE op \in {"Context.error", "Logger.error"} -> "error"
      [] op \in {"Context.info", "Logger.info"} -> "info"
      [] op \in {"Context.debug", "Logger.debug"} -> "debug"

\* The fields, before the call, of the Context the call is made on; a Logger
\* method is made on a Context that is new
OwnFields(p) == IF last'[p].self = 0 THEN <<>> ELSE contexts[p][last'[p].self]._fields

\* The global fields, then the Context's own, before the call
Merged(p) == globalFields[p] \o OwnFields(p)

\* The call hands the Sink one more entry and leaves the earlier ones as they were
Delivers(p) ==
    /\ Len(out'[p]) = Len(out[p]) + 1
    /\ SubSeq(out'[p], 1, Len(out[p])) = out[p]

\* The entry the call hands to the Sink
Entry(p) == out'[p][Len(out'[p])]

NamesOf(fields) == {fields[i].name : i \in DOMAIN fields}

\* The last of fields that has the name
LastNamed(fields, name) ==
    fields[CHOOSE i \in DOMAIN fields :
               /\ fields[i].name = name
               /\ \A j \in DOMAIN fields : fields[j].name = name => j <= i]

\* The real value of a field at an emission: the result of calling it when it
\* is a function, the stored value otherwise
Real(field) == IF typeof(field.value) = "function" THEN CallFn(field.value) ELSE field.value

\* The value an emission of process p shows for a field
Shown(p, field) ==
    IF field.sensitive /\ ENVIRONMENT[p] # "development" THEN Str("") ELSE Real(field)

\* The key assignments of an emission, in order: level, message, the fields
Assignments(p, fields) ==
    <<[name |-> "level", value |-> Str(LevelOf(last'[p].op))],
      [name |-> "message", value |-> last'[p].value]>>
    \o [i \in DOMAIN fields |-> [name |-> fields[i].name, value |-> Shown(p, fields[i])]]

\* The entry is the last-writer-wins assignment of the fields over level and message
LastWriterWins(p, fields) ==
    /\ DOMAIN Entry(p) = NamesOf(Assignments(p, fields))
    /\ \A k \in DOMAIN Entry(p) : Entry(p)[k] = LastNamed(Assignments(p, fields), k).value

\* In a state: the entry handed over last, and the fields of the Context the
\* last call was made on
LastEntry(p) == out[p][Len(out[p])]
SelfFields(p) == contexts[p][last[p].self]._fields

----------------------------------------------------------------------------
(* C1 *)

\* C1, as stated: every emission on a Context hands over an entry that holds,
\* for every field attached to the Context, the key of the field with the
\* stored (serialized) value of the field, or with the empty string when the
\* field is sensitive and the process is not in development mode.
C1_Original ==
    [][\A p \in procs : Called(p, ContextEmitOps) =>
          /\ Delivers(p)
          /\ \A i \in DOMAIN OwnFields(p) :
                LET field == OwnFields(p)[i]
                IN  /\ field.name \in DOMAIN Entry(p)
                    /\ Entry(p)[field.name] =
                           IF field.sensitive /\ ENVIRONMENT[p] # "development"
                           THEN Str("") ELSE field.value]_vars

\* C1, amended: every emission on a Context hands over an entry that holds the
\* key of every field attached to the Context; the value under the key comes
\* from the last field of that name among the global fields followed by the
\* fields of the Context: the result of calling its stored value when that is
\* a function, its stored value otherwise, and the empty string when that
\* field is sensitive and the process is not in development mode.
C1_Amended ==
    [][\A p \in procs : Called(p, ContextEmitOps) =>
          /\ Delivers(p)
          /\ \A i \in DOMAIN OwnFields(p) :
                LET field == OwnFields(p)[i]
                IN  /\ field.name \in DOMAIN Entry(p)
                    /\ Entry(p)[field.name] = Shown(p, LastNamed(Merged(p), field.name))]_vars

\* An emission, outside development mode, on a Context that holds a sensitive
\* field and a field that is not, the sensitive one shown as the empty string
C1_Witness ==
    \E p \in procs :
        /\ last[p].op \in ContextEmitOps
        /\ ENVIRONMENT[p] # "development"
        /\ \E i, j \in DOMAIN SelfFields(p) :
              /\ SelfFields(p)[i].sensitive
              /\ SelfFields(p)[i].value = Str("{\"a\":1}")
              /\ ~SelfFields(p)[j].sensitive
              /\ SelfFields(p)[j].name = "message"
        /\ LastEntry(p)["a"] = Str("")
        /\ LastEntry(p)["message"] = Num42

----------------------------------------------------------------------------
(* C2 *)

\* C2: the entry of every emission (on a Context or by a Logger shortcut) is
\* the result of last-writer-wins key assignment over level, message, the
\* global fields in registration order, then the fields of the Context in
\* insertion order.  So the key of every global field is in the entry, a field
\* of the Context wins over a global field of its name, a later field wins
\* over an earlier one of its name, and a field named level or message
\* replaces the severity or the message.
C2_LastWriterWins ==
    [][\A p \in procs : Called(p, EmitOps) =>
          /\ Delivers(p)
          /\ LastWriterWins(p, Merged(p))
          /\ NamesOf(globalFields[p]) \subseteq DOMAIN Entry(p)]_vars

\* An emission on a Context whose field a overrides the global field a, with
\* another value
C2_Witness ==
    \E p \in procs :
        /\ last[p].op \in ContextEmitOps
        /\ \E i \in DOMAIN globalFields[p] :
              /\ globalFields[p][i].name = "a"
              /\ globalFields[p][i].value = Lazy
        /\ \E j \in DOMAIN SelfFields(p) :
              /\ SelfFields(p)[j].name = "a"
              /\ SelfFields(p)[j].value = Str("{\"a\":1}")
              /\ ~SelfFields(p)[j].sensitive
        /\ LastEntry(p)["a"] = Str("{\"a\":1}")

----------------------------------------------------------------------------
(* C3 *)

----------------------------------------------------------------------------
(* C4 *)

\* String(err), the string representation of err
StringOf(err) ==
    CASE err = Null -> Str("null")
      [] err = Undefined -> Str("undefined")
      [] err = ErrBoom -> Str("Error: boom")

\* The Context a call returns has, after the fields before, one field named
\* error, not sensitive, with the value
AddsErrorField(p, value) ==
    /\ last'[p].thrown = NoThrow
    /\ last'[p].ret \in DOMAIN contexts'[p]
    /\ contexts'[p][last'[p].ret]._fields =
           Append(OwnFields(p), [name |-> "error", value |-> value, sensitive |-> FALSE])

\* C4, as stated: every withError(err), on a Context or on the Logger, calls
\* captureException exactly once, with err, and returns the Context with one
\* more field, named error, not sensitive, whose value is the string
\* representation of err, whatever err is.
C4_Original ==
    [][\A p \in procs : Called(p, WithErrorOps) =>
          /\ captured'[p] = Append(captured[p], last'[p].value)
          /\ AddsErrorField(p, StringOf(last'[p].value))]_vars

\* C4, amended: every withError(err), on a Context or on the Logger, calls
\* captureException exactly once, with err.  When err is neither null nor
\* undefined the call returns the Context with one more field, named error,
\* not sensitive, whose value is the string representation of err; when err
\* is null or undefined the call throws a TypeError after captureException
\* and no Context gains a field.
C4_Amended ==
    [][\A p \in procs : Called(p, WithErrorOps) =>
          /\ captured'[p] = Append(captured[p], last'[p].value)
          /\ IF last'[p].value \in {Null, Undefined}
             THEN /\ last'[p].thrown # NoThrow
                  /\ contexts'[p] = contexts[p]
             ELSE AddsErrorField(p, StringOf(last'[p].value))]_vars

\* A withError on a Context that holds a field already, and now holds the
\* field error after it
C4_Witness ==
    \E p \in procs :
        /\ last[p].op = "Context.withError"
        /\ last[p].thrown = NoThrow
        /\ Len(SelfFields(p)) = 2
        /\ SelfFields(p)[2] = [name |-> "error", value |-> Str("Error: boom"), sensitive |-> FALSE]
        /\ captured[p] = <<ErrBoom>>

----------------------------------------------------------------------------
(* C5 *)

\* C5: two processes that differ in development mode only and receive the
\* same calls hand their Sinks entries equal in number and order, with the
\* same keys.  Under a key whose winning field is sensitive the process in
\* development mode holds the real resolved value of the field and the other
\* process the empty string; under every other key the two hold the same.
C5_OnlySensitiveDiffer ==
    [][Called(1, EmitOps) =>
          /\ Delivers(1) /\ Delivers(2)
          /\ Len(out'[1]) = Len(out'[2])
          /\ DOMAIN Entry(1) = DOMAIN Entry(2)
          /\ \A k \in DOMAIN Entry(1) :
                IF k \in NamesOf(Merged(1)) /\ LastNamed(Merged(1), k).sensitive
                THEN /\ Entry(1)[k] = Real(LastNamed(Merged(1), k))
                     /\ Entry(2)[k] = Str("")
                ELSE Entry(1)[k] = Entry(2)[k]]_vars

\* An emission whose entries differ under the key of a sensitive field and
\* agree under the key of a field that is not sensitive
C5_Witness ==
    /\ procs = {1, 2}
    /\ last[1].op \in ContextEmitOps
    /\ \E i, j \in DOMAIN SelfFields(1) :
          /\ SelfFields(1)[i].name = "a" /\ SelfFields(1)[i].sensitive
          /\ SelfFields(1)[j].name = "message" /\ ~SelfFields(1)[j].sensitive
    /\ LastEntry(1)["a"] = Str("{\"a\":1}")
    /\ LastEntry(2)["a"] = Str("")
    /\ LastEntry(1)["message"] = Num42
    /\ LastEntry(2)["message"] = Num42

----------------------------------------------------------------------------
(* C6 *)

\* C6, as stated: new Context with no logger fails with an error of kind
\* InvalidArgument whose message is "context requires a logger"; no Context is
\* created and nothing is emitted.
C6_Original ==
    [][\A p \in procs : (Called(p, {"new Context"}) /\ last'[p].value = Str(NoLogger)) =>
          /\ last'[p].thrown = "InvalidArgument: context requires a logger"
          /\ last'[p].created = <<>>
          /\ contexts'[p] = contexts[p]
          /\ out'[p] = out[p]]_vars

\* C6, amended: new Context with no logger fails with a plain Error whose
\* message is "context expected a logger"; no Context is created and nothing
\* is emitted.
C6_Amended ==
    [][\A p \in procs : (Called(p, {"new Context"}) /\ last'[p].value = Str(NoLogger)) =>
          /\ last'[p].thrown = "Error: context expected a logger"
          /\ last'[p].created = <<>>
          /\ contexts'[p] = contexts[p]
          /\ out'[p] = out[p]]_vars

\* A new Context with no logger, made by a caller that holds a Context and has
\* emitted on it
C6_Witness ==
    \E p \in procs :
        /\ last[p].op = "new Context"
        /\ last[p].value = Str(NoLogger)
        /\ last[p].thrown # NoThrow
        /\ Len(contexts[p]) = 1
        /\ Len(out[p]) = 1

----------------------------------------------------------------------------
(* C7 *)

\* C7: the value new Field(name, v, sensitive) stores is the JSON text of v
\* when typeof v is "object" ({a: 1} gives the text {"a":1}, null the text
\* null), the empty string when v is undefined, and v itself, not
\* stringified, otherwise (a number, a string, a boolean, a function); the
\* name and the sensitive flag are stored as given.  The constructor throws
\* on the circular object alone.
C7_FieldStores ==
    \A p \in procs : last[p].op \in {"new Field", "new Field(sensitive)"} =>
        IF last[p].value = Circular
        THEN last[p].thrown # NoThrow /\ last[p].created = <<>>
        ELSE /\ last[p].thrown = NoThrow
             /\ Len(last[p].created) = 1
             /\ last[p].created[1].name = last[p].name
             /\ last[p].created[1].sensitive = (last[p].op = "new Field(sensitive)")
             /\ last[p].created[1].value =
                    CASE last[p].value = ObjA -> Str("{\"a\":1}")
                      [] last[p].value = Null -> Str("null")
                      [] last[p].value = Undefined -> Str("")
                      [] OTHER -> last[p].value

\* A sensitive Field made of null, which stores the text null
C7_Witness ==
    \E p \in procs :
        /\ last[p].op = "new Field(sensitive)"
        /\ last[p].value = Null
        /\ last[p].created = <<[name |-> "a", value |-> Str("null"), sensitive |-> TRUE]>>

----------------------------------------------------------------------------
(* C8 *)

\* C8: Logger.withField, withSensitiveField and withError and the shortcuts
\* Logger.error, info and debug each construct one Context, with an empty
\* field list, and leave globalFields and every Context held before as they
\* were; the Context a with-method returns holds the one field attached.  So
\* the entry of an emission on a Context has no key but level, message, the
\* names of the global fields and the names of its own fields, and the entry
\* of a Logger shortcut is made of level, message and the global fields alone.
C8_FreshContext ==
    [][\A p \in procs :
          /\ Called(p, LoggerContextOps \cup LoggerEmitOps) =>
                /\ Len(last'[p].created) = 1
                /\ last'[p].created[1]._fields = <<>>
                /\ globalFields'[p] = globalFields[p]
                /\ SubSeq(contexts'[p], 1, Len(contexts[p])) = contexts[p]
          /\ (Called(p, LoggerContextOps) /\ last'[p].thrown = NoThrow) =>
                /\ Len(contexts'[p]) = Len(contexts[p]) + 1
                /\ last'[p].ret = Len(contexts'[p])
                /\ Len(contexts'[p][last'[p].ret]._fields) = 1
          /\ Called(p, LoggerEmitOps) =>
                /\ Delivers(p)
                /\ contexts'[p] = contexts[p]
                /\ LastWriterWins(p, globalFields[p])
          /\ Called(p, ContextEmitOps) =>
                /\ Delivers(p)
                /\ DOMAIN Entry(p) =
                       {"level", "message"} \cup NamesOf(globalFields[p]) \cup NamesOf(OwnFields(p))]_vars

\* An emission on one of two Contexts the Logger returned, whose entry lacks
\* the key of the field of the other
C8_Witness ==
    \E p \in procs :
        /\ last[p].op \in ContextEmitOps
        /\ Len(contexts[p]) = 2
        /\ \E c \in DOMAIN contexts[p] :
              /\ c # last[p].self
              /\ contexts[p][c]._fields # <<>>
              /\ contexts[p][c]._fields[1].name \notin DOMAIN LastEntry(p)
        /\ SelfFields(p) # <<>>
        /\ SelfFields(p)[1].name \in DOMAIN LastEntry(p)

----------------------------------------------------------------------------
(* C9 *)

\* The fields of the list whose stored value is a function
Callable(fields) == {i \in DOMAIN fields : typeof(fields[i].value) = "function"}

----------------------------------------------------------------------------
(* C10 *)

\* C10: an emission changes neither the field list of a Context nor
\* globalFields and hands the Sink exactly one entry, whose keys are level,
\* message and the names of the fields present at that moment; no other call
\* hands the Sink an entry.  Two emissions on a Context with no call between
\* them carry the same keys, and the emission that follows the attachment of
\* a field holds the field, while the entries handed over before do not change.
C10_EmissionFrame ==
    [][\A p \in procs :
          /\ Called(p, EmitOps) =>
                /\ contexts'[p] = contexts[p]
                /\ globalFields'[p] = globalFields[p]
                /\ Delivers(p)
                /\ DOMAIN Entry(p) = {"level", "message"} \cup NamesOf(Merged(p))
                /\ (last[p].op \in ContextEmitOps /\ last[p].self = last'[p].self) =>
                      DOMAIN Entry(p) = DOMAIN LastEntry(p)
                /\ (/\ last[p].op \in {"Context.withField", "Context.withSensitiveField"}
                    /\ last[p].thrown = NoThrow
                    /\ last[p].self = last'[p].self) =>
                      /\ last[p].name \in DOMAIN Entry(p)
                      /\ Entry(p)[last[p].name] = Shown(p, OwnFields(p)[Len(OwnFields(p))])
          /\ (ncalls' = ncalls + 1 /\ last'[p].op \notin EmitOps) => out'[p] = out[p]]_vars

\* Two emissions on a Context with the attachment of a field between them:
\* the second entry holds the field, the first does not
C10_Witness ==
    \E p \in procs :
        /\ last[p].op \in ContextEmitOps
        /\ Len(out[p]) = 2
        /\ globalFields[p] = <<>>
        /\ Len(SelfFields(p)) = 1
        /\ SelfFields(p)[1].name = "a"
        /\ "a" \notin DOMAIN out[p][1]
        /\ "a" \in DOMAIN out[p][2]

====
